---- MODULE Spec2Model ----
(***************************************************************************)
(* Scan-session orchestration of WebIntelAudit: the in-memory record store *)
(* (server/storage.ts), the HTTP/WebSocket routes (server/routes.ts, and   *)
(* its later build with browserAction/screenshot forwarding) and the       *)
(* worker process whose stdout/stderr/close events drive a job.            *)
(*                                                                         *)
(* The server is one Node.js event loop.  A macrotask (an I/O callback:    *)
(* a stdout/stderr 'data' event, a child 'close' event, a WebSocket        *)
(* message, an HTTP request) runs a handler up to its first `await`; the   *)
(* rest of the handler is a continuation on the microtask queue.  Every    *)
(* awaited promise comes from MemStorage, whose methods contain no await   *)
(* of their own, so the continuation is runnable at once and the queue is  *)
(* drained before the next macrotask is taken.                             *)
(***************************************************************************)
EXTENDS Integers, Sequences, FiniteSets, TLC

\* ------------------------------------------------------------------ bounds
MaxOutput == 3      \* Spec: units of worker output (stdout lines, stderr chunks)
MaxClock  == 1      \* Spec: times the clock advances
MaxLiveOutput == 2  \* SpecLive: units of worker output
MaxAcks       == 2  \* SpecLive: 'subscribed' confirmations sent
MaxEffects    == 2  \* SpecClient: runs of the hook's effect (mount, then scanId changes)

JobIds == {1, 2}     \* scan ids
Conns  == {1, 2}     \* WebSocket connections
Chains == 1..MaxEffects   \* the sockets of the hook, by the run of the effect that began them

\* -------------------------------------------------------------- base values
Null == <<>>                 \* a nullable column holding null
Some(v) == <<v>>             \* a nullable column holding v

Range(s) == {s[i] : i \in DOMAIN s}

RECURSIVE Count(_, _)
Count(s, x) == IF s = <<>> THEN 0
               ELSE (IF Head(s) = x THEN 1 ELSE 0) + Count(Tail(s), x)

RECURSIVE Repeat(_, _)
Repeat(x, n) == IF n = 0 THEN <<>> ELSE <<x>> \o Repeat(x, n - 1)

\* { ...a, ...b }: object spread, later keys win
Spread(a, b) == [f \in (DOMAIN a) \cup (DOMAIN b) |-> IF f \in DOMAIN b THEN b[f] ELSE a[f]]

VARIABLES
  enhanced,            \* TRUE: the build with browserAction/screenshot forwarding
  crashed,             \* the server process died of an unhandled 'error' event
  clock,               \* what `new Date()` returns
  currentId,           \* MemStorage.currentId
  scanSessions,        \* MemStorage.scanSessions : id -> ScanSession
  sessionConnections,  \* Map<number, Set<WebSocket>>, each Set in insertion order
  readyState,          \* ws.readyState of every connection
  received,            \* what each connection was sent, in order
  proc,                \* the worker process of every job
  stdoutPipe,          \* per job: the unread remainder of a line cut by the last chunk
  budget,              \* what the environment may still do: posts, output, ticks, sockets, acks
  arrivals,            \* per job: output units that reached a 'data' handler
  microtasks,          \* continuations of suspended async handlers, FIFO
  published,           \* history: per job, every broadcastUpdate call
  parseFailures,       \* history: per job, stdout lines on which JSON.parse threw
  skipped,             \* history: per job, well-formed lines abandoned by the catch
  hook                 \* one mounted useWebSocket: its refs, its sockets and the
                       \* seconds left on its timers

vars == <<enhanced, crashed, clock, currentId, scanSessions, sessionConnections,
          readyState, received, proc, stdoutPipe, budget, arrivals, microtasks,
          published, parseFailures, skipped, hook>>

\* everything the server owns
serverVars == <<enhanced, crashed, clock, currentId, scanSessions, sessionConnections,
                readyState, received, proc, stdoutPipe, budget, arrivals, microtasks,
                published, parseFailures, skipped>>

\* ------------------------------------------------------------ record store
\* a createScanSession that stamps completedAt like createdAt
NewSessionStamped(insertSession, id, now) ==
  Spread(insertSession,
         [id |-> id, status |-> "pending", progress |-> 0,
          securityScore |-> Null, loadTime |-> Null, domElements |-> Null,
          jsErrors |-> Null, vulnerabilities |-> Null,
          performanceMetrics |-> Null, nlpInsights |-> Null,
          logs |-> <<>>, createdAt |-> Some(now), completedAt |-> Some(now)])

\* MemStorage.createScanSession: the record stored (and returned) for a new id
NewSession(insertSession, id, now) ==
  Spread(insertSession,
         [id |-> id, status |-> "pending", progress |-> 0,
          securityScore |-> Null, loadTime |-> Null, domElements |-> Null,
          jsErrors |-> Null, vulnerabilities |-> Null,
          performanceMetrics |-> Null, nlpInsights |-> Null,
          logs |-> <<>>, createdAt |-> Some(now), completedAt |-> Null])

createScanSession(sessions, insertSession, id, now) ==
  [k \in (DOMAIN sessions) \cup {id} |->
     IF k = id THEN NewSession(insertSession, id, now) ELSE sessions[k]]

\* MemStorage.updateScanSession: { ...session, ...updates }, nothing for an unknown id
updateScanSession(sessions, id, updates) ==
  IF id \notin DOMAIN sessions THEN sessions
  ELSE [sessions EXCEPT ![id] = Spread(@, updates)]

\* an addLogEntry that resolves without having stored the entry
addLogEntryDropped(sessions, sessionId, logEntry) == sessions

\* MemStorage.addLogEntry: push onto session.logs, nothing for an unknown id
addLogEntry(sessions, sessionId, logEntry) ==
  IF sessionId \notin DOMAIN sessions THEN sessions
  ELSE [sessions EXCEPT ![sessionId] = Spread(@, [logs |-> Append(@.logs, logEntry)])]

\* Array.from(this.scanSessions.values()): the records in insertion order
Values(sessions) == [i \in 1..Cardinality(DOMAIN sessions) |-> sessions[i]]

\* a.createdAt ? new Date(a.createdAt).getTime() : 0
Time(r) == IF r.createdAt = Null THEN 0 ELSE r.createdAt[1]

\* a comparator that puts the oldest first
CompareAscending(a, b) == Time(a) - Time(b)

\* the comparator of getAllScanSessions
Compare(a, b) == Time(b) - Time(a)

\* Array.prototype.sort with Compare, which is stable
RECURSIVE Sort(_)
Sort(s) ==
  IF s = <<>> THEN <<>>
  ELSE LET r     == s[Len(s)]
           front == Sort(SubSeq(s, 1, Len(s) - 1))
       IN SelectSeq(front, LAMBDA e : Compare(e, r) <= 0) \o <<r>>
          \o SelectSeq(front, LAMBDA e : Compare(e, r) > 0)

\* MemStorage.getAllScanSessions, what GET /api/scans answers
getAllScanSessions(sessions) == Sort(Values(sessions))

\* ------------------------------------------------------------ worker output
\* A line of text is either the serialisation of an object or not JSON at all.
Json(obj)    == [valid |-> TRUE, obj |-> obj]
NonJson(raw) == [valid |-> FALSE, raw |-> raw]

\* JSON.parse: the object of a well-formed line; it throws on any other text
Parses(text)    == text.valid
JSONParse(text) == text.obj

LogData      == {[level |-> "INFO", message |-> "step"]}
ProgressData == {[progress |-> 50], [progress |-> 10, status |-> "failed"]}
ResultData   == {[securityScore |-> Some(85)], [logs |-> <<>>]}
CustomTags   == {"browserAction"}

StdoutObjects ==
       {[type |-> "log", data |-> d] : d \in LogData}
  \cup {[type |-> "progress", data |-> d] : d \in ProgressData}
  \cup {[type |-> "result", data |-> d] : d \in ResultData}
  \cup {[type |-> t, data |-> [action |-> "navigate"]] : t \in CustomTags}

\* what the worker may print on stdout, one line at a time
StdoutLines == {Json(o) : o \in StdoutObjects} \cup {NonJson("oops")}

\* SpecLive: the lines whose handling sends something to the observers
LiveLines ==
  {Json(o) : o \in {[type |-> "log", data |-> [level |-> "INFO", message |-> "step"]],
                    [type |-> "progress", data |-> [progress |-> 50]],
                    [type |-> "result", data |-> [securityScore |-> Some(85)]],
                    [type |-> "browserAction", data |-> [action |-> "navigate"]]}}

\* what the worker may print on stderr
StderrTexts == {"Traceback\n"}

\* exit codes of the worker: success, failure
ExitCodes == {0, 1}

\* a || b on strings: b when a is missing or empty
OrElse(d, f, dflt) == IF f \in DOMAIN d /\ d[f] # "" THEN d[f] ELSE dflt

\* ------------------------------------------------------------- broadcaster
Msg(type, data, job, seq) == [type |-> type, data |-> data, job |-> job, seq |-> seq]

\* an Array.push where the code has Set.add
ArrayPush(set, ws) == Append(set, ws)

\* Set.add on an insertion-ordered Set
SetAdd(set, ws) == IF ws \in Range(set) THEN set ELSE Append(set, ws)

\* a Set.delete that leaves the Set as it is
SetKeep(set, ws) == set

\* Set.delete
SetDelete(set, ws) == SelectSeq(set, LAMBDA x : x # ws)

IsOpen(ws) == readyState[ws] = "OPEN"

\* The handler state a synchronous stretch of code reads and writes.
Here == [sessions |-> scanSessions, conns |-> sessionConnections, recv |-> received,
         micro |-> microtasks, pub |-> published, fails |-> parseFailures,
         skip |-> skipped]

\* the members of a Set up to its first member that is not OPEN
RECURSIVE OpenPrefix(_)
OpenPrefix(set) ==
  IF set = <<>> \/ ~IsOpen(Head(set)) THEN <<>>
  ELSE <<Head(set)>> \o OpenPrefix(Tail(set))

\* a broadcast without the readyState test: ws.send throws on the first member
\* that is not OPEN and the forEach ends there
broadcastUntilClosed(st, sessionId, data) ==
  LET connections == IF sessionId \in DOMAIN st.conns THEN st.conns[sessionId] ELSE <<>>
  IN [st EXCEPT
        !.recv = [ws \in Conns |-> @[ws] \o Repeat(data, Count(OpenPrefix(connections), ws))],
        !.pub  = [@ EXCEPT ![sessionId] = Append(@, data)]]

\* a broadcast that sends to the members of every job's Set
broadcastToAll(st, sessionId, data) ==
  [st EXCEPT
     !.recv = [ws \in Conns |->
                 IF IsOpen(ws) /\ \E k \in DOMAIN st.conns : ws \in Range(st.conns[k])
                 THEN Append(@[ws], data) ELSE @[ws]],
     !.pub  = [@ EXCEPT ![sessionId] = Append(@, data)]]

\* a broadcast that marks the job failed when one of its subscribers cannot be
\* reached
broadcastOrFail(st, sessionId, data) ==
  LET connections == IF sessionId \in DOMAIN st.conns THEN st.conns[sessionId] ELSE <<>>
  IN [st EXCEPT
        !.recv  = [ws \in Conns |->
                     IF IsOpen(ws) THEN @[ws] \o Repeat(data, Count(connections, ws))
                     ELSE @[ws]],
        !.sessions = IF \E ws \in Range(connections) : ~IsOpen(ws)
                     THEN updateScanSession(@, sessionId, [status |-> "failed"])
                     ELSE @,
        !.pub   = [@ EXCEPT ![sessionId] = Append(@, data)]]

\* ws.send(JSON.stringify(data)) on every OPEN member of the job's Set; the later
\* build also deletes the members that are not OPEN
broadcastUpdate(st, sessionId, data) ==
  LET connections == IF sessionId \in DOMAIN st.conns THEN st.conns[sessionId] ELSE <<>>
  IN [st EXCEPT
        !.recv  = [ws \in Conns |->
                     IF IsOpen(ws) THEN @[ws] \o Repeat(data, Count(connections, ws))
                     ELSE @[ws]],
        !.conns = IF enhanced /\ sessionId \in DOMAIN st.conns
                  THEN [@ EXCEPT ![sessionId] = SelectSeq(connections, IsOpen)]
                  ELSE @,
        !.pub   = [@ EXCEPT ![sessionId] = Append(@, data)]]

\* `await p` on a MemStorage promise: the rest of the handler joins the queue
Await(st, k) == [st EXCEPT !.micro = Append(@, k)]

Cont(kind, job, msg, rest) == [kind |-> kind, job |-> job, msg |-> msg, rest |-> rest]

\* -------------------------------------------------------- stdout 'data' handler
ValidCount(lines) == Cardinality({i \in DOMAIN lines : Parses(lines[i].text)})

\* the mutation a progress line makes
ProgressUpdate(data) ==
  [progress |-> data.progress, status |-> OrElse(data, "status", "running")]

\* the mutation a result line makes
ResultUpdate(data, now) ==
  Spread(data, [status |-> "completed", completedAt |-> Some(now)])

\* the for-loop over the lines of one chunk, from `lines` on, up to the next await
\* (or to the end of the chunk, or to the catch)
RECURSIVE StdoutLoop(_, _, _)
StdoutLoop(st, id, lines) ==
  IF lines = <<>> THEN st
  ELSE
    LET line == Head(lines)
        rest == Tail(lines)
    IN
    IF ~Parses(line.text)
    THEN \* catch (error) { console.error(...) }: the rest of the chunk is abandoned
         [st EXCEPT !.fails = [@ EXCEPT ![id] = Append(@, line)],
                    !.skip  = [@ EXCEPT ![id] = @ + ValidCount(rest)]]
    ELSE
      LET update == JSONParse(line.text) IN
      CASE update.type = "log" ->
             LET entry == Spread(update.data, [seq |-> line.seq]) IN
             Await([st EXCEPT !.sessions = addLogEntry(@, id, entry)],
                   Cont("stdout", id, Msg("log", entry, id, line.seq), rest))
        [] update.type = "progress" ->
             Await([st EXCEPT !.sessions =
                        updateScanSession(@, id, ProgressUpdate(update.data))],
                   Cont("stdout", id, Msg("progress", update.data, id, line.seq), rest))
        [] update.type = "result" ->
             Await([st EXCEPT !.sessions =
                        updateScanSession(@, id, ResultUpdate(update.data, clock))],
                   Cont("stdout", id, Msg("result", update.data, id, line.seq), rest))
        [] enhanced /\ update.type \in {"browserAction", "screenshot"} ->
             StdoutLoop(broadcastUpdate(st, id,
                          Msg(update.type, update.data, id, line.seq)), id, rest)
        [] OTHER -> StdoutLoop(st, id, rest)

\* String.prototype.trim on the texts the worker writes to stderr
Trim(text) == CASE text = "Traceback\n" -> "Traceback"
                [] text = "{\"type\":\"result\",\"data\":{\"securityScore\":85}}\n"
                     -> "{\"type\":\"result\",\"data\":{\"securityScore\":85}}"
                [] OTHER -> text

\* data.toString().split('\n').filter(Boolean): the pieces of text between the
\* newlines of one chunk, each numbered by its arrival
SplitLines(texts, base) == [i \in DOMAIN texts |-> [text |-> texts[i], seq |-> base + i]]

\* --------------------------------------------------------------- event loop
\* a store whose promises resolve only after further I/O: the next macrotask
\* may be taken while a handler is still suspended
EventLoopAnytime == ~crashed

\* A macrotask is taken only when no continuation is waiting.
EventLoopIdle == microtasks = <<>> /\ ~crashed

Commit(st) ==
  /\ scanSessions' = st.sessions
  /\ sessionConnections' = st.conns
  /\ received' = st.recv
  /\ microtasks' = st.micro
  /\ published' = st.pub
  /\ parseFailures' = st.fails
  /\ skipped' = st.skip

Resumed == [Here EXCEPT !.micro = Tail(microtasks)]

Terminal == {"completed", "failed"}

\* ------------------------------------------------------------------ actions
\* the state after registerRoutes and `new MemStorage()`
Start ==
  /\ enhanced \in BOOLEAN
  /\ crashed = FALSE
  /\ clock = 0
  /\ currentId = 1
  /\ scanSessions = <<>>
  /\ sessionConnections = <<>>
  /\ readyState = [ws \in Conns |-> "NONE"]
  /\ received = [ws \in Conns |-> <<>>]
  /\ proc = [id \in JobIds |-> [state |-> "none", code |-> 0]]
  /\ stdoutPipe = [id \in JobIds |-> <<>>]
  /\ arrivals = [id \in JobIds |-> 0]
  /\ microtasks = <<>>
  /\ published = [id \in JobIds |-> <<>>]
  /\ parseFailures = [id \in JobIds |-> <<>>]
  /\ skipped = [id \in JobIds |-> 0]
  /\ hook = [mounted |-> FALSE, effects |-> 0, reconnectAttempts |-> 0,
             wsRef |-> 0, reconnectTimeoutRef |-> 0,
             ws |-> [c \in Chains |-> "NONE"], delay |-> [c \in Chains |-> 0],
             streak |-> 0]

\* time passes
Tick ==
  /\ EventLoopIdle
  /\ budget.ticks > 0
  /\ budget' = [budget EXCEPT !.ticks = @ - 1]
  /\ clock' = clock + 1
  /\ UNCHANGED <<hook, enhanced, crashed, currentId, scanSessions, sessionConnections,
                 readyState, received, proc, stdoutPipe, arrivals,
                 microtasks, published, parseFailures, skipped>>

\* POST /api/scans up to `await storage.createScanSession(validatedUrl)`; the
\* continuation holds `session`, the record it will answer with (res.json)
PostScans(url) ==
  /\ EventLoopIdle
  /\ budget.posts > 0
  /\ budget' = [budget EXCEPT !.posts = @ - 1]
  /\ scanSessions' = createScanSession(scanSessions, [url |-> url], currentId, clock)
  /\ currentId' = currentId + 1
  /\ proc' = [proc EXCEPT ![currentId].state = "created"]
  /\ microtasks' = Append(microtasks,
        Cont("spawn", currentId,
             Msg("response", NewSession([url |-> url], currentId, clock), currentId, 0),
             <<>>))
  /\ UNCHANGED <<hook, enhanced, crashed, clock, sessionConnections, readyState, received,
                 stdoutPipe, arrivals, published, parseFailures, skipped>>

\* POST /api/scans after the await: spawn('python3', ...) and the listeners.
\* spawn either starts the worker, or reports ENOENT/EACCES by a later 'error'
\* event, or throws (caught by the route: 400, nothing else is done).
SpawnWorker(outcome) ==
  /\ microtasks # <<>> /\ ~crashed
  /\ Head(microtasks).kind = "spawn"
  /\ proc' = [proc EXCEPT ![Head(microtasks).job].state = outcome]
  /\ microtasks' = Tail(microtasks)
  /\ UNCHANGED <<hook, enhanced, crashed, clock, currentId, scanSessions, sessionConnections,
                 readyState, received, stdoutPipe, budget, arrivals, published,
                 parseFailures, skipped>>

\* analysisProcess.on('error'): logged by the later build; the first build has no
\* listener, so the emit throws and the server dies
ErrorEvent(id) ==
  /\ EventLoopIdle
  /\ proc[id].state = "spawnerror"
  /\ IF enhanced
     THEN proc' = [proc EXCEPT ![id] = [state |-> "exited", code |-> -2]] /\ crashed' = crashed
     ELSE crashed' = TRUE /\ proc' = proc
  /\ UNCHANGED <<hook, enhanced, clock, currentId, scanSessions, sessionConnections,
                 readyState, received, stdoutPipe, budget, arrivals, microtasks,
                 published, parseFailures, skipped>>

\* the worker exits
WorkerExit(id, code) ==
  /\ EventLoopIdle
  /\ proc[id].state = "running"
  /\ proc' = [proc EXCEPT ![id] = [state |-> "exited", code |-> code]]
  /\ UNCHANGED <<hook, enhanced, crashed, clock, currentId, scanSessions, sessionConnections,
                 readyState, received, stdoutPipe, budget, arrivals, microtasks,
                 published, parseFailures, skipped>>

\* the sequences of at most n lines drawn from `lines`
Outputs(lines, n) == UNION {[1..k -> lines] : k \in 0..n}

\* analysisProcess.stdout.on('data'): one chunk of what the worker printed since
\* the last one.  A chunk is the unread remainder of a line the previous chunk
\* cut (if any), then whole lines and, with `cut`, the first part of one more
\* line, whose remainder stays in the pipe.
StdoutData(id, whole, cut) ==
  LET texts == [i \in DOMAIN stdoutPipe[id] |-> NonJson("tail")] \o whole
                 \o (IF cut THEN <<NonJson("head")>> ELSE <<>>)
      lines == SplitLines(texts, arrivals[id])
      used  == Len(whole) + (IF cut THEN 1 ELSE 0)
  IN
  /\ EventLoopIdle
  /\ \/ proc[id].state = "running"
     \/ proc[id].state = "exited" /\ used = 0     \* what was still in the pipe
  /\ texts # <<>>
  /\ used <= budget.output
  /\ budget' = [budget EXCEPT !.output = @ - used]
  /\ stdoutPipe' = [stdoutPipe EXCEPT ![id] = IF cut THEN <<"tail">> ELSE <<>>]
  /\ arrivals' = [arrivals EXCEPT ![id] = @ + Len(lines)]
  /\ Commit(StdoutLoop(Here, id, lines))
  /\ UNCHANGED <<hook, enhanced, crashed, clock, currentId, readyState, proc>>

\* the stdout handler after an await: broadcast, then the next lines
ResumeStdout ==
  /\ microtasks # <<>> /\ ~crashed
  /\ Head(microtasks).kind = "stdout"
  /\ LET k == Head(microtasks)
     IN Commit(StdoutLoop(broadcastUpdate(Resumed, k.job, k.msg), k.job, k.rest))
  /\ UNCHANGED <<hook, enhanced, crashed, clock, currentId, readyState, proc, stdoutPipe,
                 budget, arrivals>>

\* analysisProcess.stderr.on('data') up to `await storage.addLogEntry`
StderrData(id, text) ==
  LET seq      == arrivals[id] + 1
      errorLog == [timestamp |-> clock, level |-> "ERROR", message |-> Trim(text),
                   seq |-> seq]
  IN
  /\ EventLoopIdle
  /\ proc[id].state = "running"
  /\ budget.output > 0
  /\ budget' = [budget EXCEPT !.output = @ - 1]
  /\ arrivals' = [arrivals EXCEPT ![id] = seq]
  /\ scanSessions' = addLogEntry(scanSessions, id, errorLog)
  /\ microtasks' = Append(microtasks, Cont("stderr", id, Msg("log", errorLog, id, seq), <<>>))
  /\ UNCHANGED <<hook, enhanced, crashed, clock, currentId, sessionConnections, readyState,
                 received, proc, stdoutPipe, published, parseFailures, skipped>>

\* a failure update that forgets the completion time
FailedUpdateUnstamped(now) == [status |-> "failed"]

\* the update a non-zero exit makes
FailedUpdate(now) == [status |-> "failed", completedAt |-> Some(now)]

\* analysisProcess.on('close'), emitted once the process has exited and its
\* stdio streams have ended, up to `await storage.updateScanSession`
Close(id) ==
  /\ EventLoopIdle
  /\ proc[id].state = "exited"
  /\ stdoutPipe[id] = <<>>
  /\ proc' = [proc EXCEPT ![id].state = "closed"]
  /\ IF proc[id].code # 0
     THEN /\ scanSessions' = updateScanSession(scanSessions, id, FailedUpdate(clock))
          /\ microtasks' = Append(microtasks,
                 Cont("close", id,
                      Msg("status", [status |-> "failed"], id, arrivals[id] + 1), <<>>))
     ELSE UNCHANGED <<scanSessions, microtasks>>
  /\ UNCHANGED <<hook, enhanced, crashed, clock, currentId, sessionConnections, readyState,
                 received, stdoutPipe, budget, arrivals, published, parseFailures,
                 skipped>>

\* the stderr or close handler after its await: broadcast
ResumeBroadcast ==
  /\ microtasks # <<>> /\ ~crashed
  /\ Head(microtasks).kind \in {"stderr", "close"}
  /\ Commit(broadcastUpdate(Resumed, Head(microtasks).job, Head(microtasks).msg))
  /\ UNCHANGED <<hook, enhanced, crashed, clock, currentId, readyState, proc, stdoutPipe,
                 budget, arrivals>>

\* ---------------------------------------------------------------- observers
Digits == <<"1", "2", "3", "4", "5", "6", "7", "8", "9">>

\* Number.prototype.toString on a scan id
IdToString(n) == Digits[n]

\* parseInt on the decimal text of a scan id
ParseInt(text) == CHOOSE n \in DOMAIN Digits : Digits[n] = text

\* what a client may send over its socket, subscribing to the jobs in `ids`
WsTexts(ids) ==
       {Json([type |-> "subscribe", sessionId |-> IdToString(id)]) : id \in ids}
  \cup {Json([type |-> "subscribe"]), Json([type |-> "ping"]), NonJson("hello")}

\* wss.on('connection'): connections are accepted in the order of their numbers
WsConnect(ws) ==
  /\ EventLoopIdle
  /\ readyState[ws] = "NONE"
  /\ budget.sockets > 0
  /\ budget' = [budget EXCEPT !.sockets = @ - 1]
  /\ \A other \in Conns : other < ws => readyState[other] # "NONE"
  /\ readyState' = [readyState EXCEPT ![ws] = "OPEN"]
  /\ UNCHANGED <<hook, enhanced, crashed, clock, currentId, scanSessions, sessionConnections,
                 received, proc, stdoutPipe, arrivals, microtasks, published,
                 parseFailures, skipped>>

IsMember(conns, sessionId, ws) ==
  sessionId \in DOMAIN conns /\ ws \in Range(conns[sessionId])

\* sessionConnections after the subscribe branch of ws.on('message')
Subscribe(conns, sessionId, ws) ==
  [k \in (DOMAIN conns) \cup {sessionId} |->
     IF k = sessionId
     THEN SetAdd(IF sessionId \in DOMAIN conns THEN conns[sessionId] ELSE <<>>, ws)
     ELSE conns[k]]

\* a subscribe that answers with everything published for the job so far
SubscribeReplay(sessionId) == published[sessionId]

\* what the subscribe branch sends back: the later build's confirmation
SubscribeReply(sessionId) ==
  IF enhanced THEN <<Msg("subscribed", [sessionId |-> sessionId], sessionId, 0)>>
  ELSE <<>>

\* ws.on('message')
WsMessage(ws, text) ==
  /\ EventLoopIdle
  /\ readyState[ws] = "OPEN"
  /\ IF Parses(text) /\ JSONParse(text).type = "subscribe"
        /\ "sessionId" \in DOMAIN JSONParse(text)
     THEN LET sessionId == ParseInt(JSONParse(text).sessionId) IN
          /\ sessionConnections' = Subscribe(sessionConnections, sessionId, ws)
          /\ IF enhanced
             THEN budget.acks > 0 /\ budget' = [budget EXCEPT !.acks = @ - 1]
             ELSE UNCHANGED budget
          /\ received' = [received EXCEPT ![ws] = @ \o SubscribeReply(sessionId)]
     ELSE UNCHANGED <<sessionConnections, received, budget>>
  /\ UNCHANGED <<hook, enhanced, crashed, clock, currentId, scanSessions, readyState, proc,
                 stdoutPipe, arrivals, microtasks, published, parseFailures,
                 skipped>>

\* the peer starts closing: readyState leaves OPEN before 'close' is emitted
\* (only broadcastUpdate reads readyState, and only of the members of a Set)
WsClosing(ws) ==
  /\ EventLoopIdle
  /\ readyState[ws] = "OPEN"
  /\ \E k \in DOMAIN sessionConnections : ws \in Range(sessionConnections[k])
  /\ readyState' = [readyState EXCEPT ![ws] = "CLOSING"]
  /\ UNCHANGED <<hook, enhanced, crashed, clock, currentId, scanSessions, sessionConnections,
                 received, proc, stdoutPipe, budget, arrivals, microtasks, published,
                 parseFailures, skipped>>

\* ws.on('close'): the connection is deleted from every job's Set
WsClose(ws) ==
  /\ EventLoopIdle
  /\ readyState[ws] \in {"OPEN", "CLOSING"}
  /\ readyState' = [readyState EXCEPT ![ws] = "CLOSED"]
  /\ sessionConnections' = [k \in DOMAIN sessionConnections |->
                              SetDelete(sessionConnections[k], ws)]
  /\ UNCHANGED <<hook, enhanced, crashed, clock, currentId, scanSessions, received, proc,
                 stdoutPipe, budget, arrivals, microtasks, published, parseFailures,
                 skipped>>

\* ------------------------------------------------- the observer's hook
\* reconnectAttempts.current < 5
MaxAttempts == 5

\* Math.pow(2, n)
RECURSIVE Pow2(_)
Pow2(n) == IF n = 0 THEN 1 ELSE 2 * Pow2(n - 1)

\* connect(): new WebSocket(wsUrl); wsRef.current = ws. Socket c stands for
\* the socket that the c-th run of the effect made and for the sockets that
\* the reconnect timers of its onclose made after it, one at a time.
connect(h, c) == [h EXCEPT !.ws[c] = "CONNECTING", !.wsRef = c]

\* the effect's cleanup: clearTimeout(reconnectTimeoutRef.current), which
\* cancels the timer set last if it has not fired, and wsRef.current.close()
Cleanup(h) ==
  LET t  == h.reconnectTimeoutRef
      h1 == IF t # 0 /\ h.ws[t] = "TIMER"
            THEN [h EXCEPT !.ws[t] = "DEAD", !.delay[t] = 0] ELSE h
  IN IF h1.wsRef # 0 /\ h1.ws[h1.wsRef] \in {"CONNECTING", "OPEN"}
     THEN [h1 EXCEPT !.ws[h1.wsRef] = "CLOSING"]
     ELSE h1

\* useEffect(..., [scanId]) runs: on mount, and on a change of scanId after the
\* cleanup of the previous run; it calls connect()
Effect ==
  /\ hook.effects < MaxEffects
  /\ hook' = connect([(IF hook.mounted THEN Cleanup(hook) ELSE hook)
                        EXCEPT !.mounted = TRUE, !.effects = @ + 1],
                     hook.effects + 1)
  /\ UNCHANGED serverVars

\* the component unmounts: the cleanup of the last run
Unmount ==
  /\ hook.mounted
  /\ hook' = [Cleanup(hook) EXCEPT !.mounted = FALSE, !.effects = MaxEffects]
  /\ UNCHANGED serverVars

\* ws.onopen
OnOpen(c) ==
  /\ hook.ws[c] = "CONNECTING"
  /\ hook' = [hook EXCEPT !.ws[c] = "OPEN", !.reconnectAttempts = 0, !.streak = 0]
  /\ UNCHANGED serverVars

\* ws.onclose, after a failed attempt, a lost connection or close()
OnClose(c) ==
  /\ hook.ws[c] \in {"CONNECTING", "OPEN", "CLOSING"}
  /\ hook' = IF hook.reconnectAttempts < MaxAttempts
             THEN [hook EXCEPT !.wsRef = 0, !.ws[c] = "TIMER",
                               !.delay[c] = Pow2(hook.reconnectAttempts),
                               !.reconnectTimeoutRef = c]
             ELSE [hook EXCEPT !.wsRef = 0, !.ws[c] = "DEAD"]
  /\ UNCHANGED serverVars

\* a second passes while a reconnect timer is pending and none is due
Second ==
  /\ \E c \in Chains : hook.ws[c] = "TIMER"
  /\ \A c \in Chains : hook.ws[c] = "TIMER" => hook.delay[c] > 0
  /\ hook' = [hook EXCEPT !.delay = [c \in Chains |->
                                       IF hook.ws[c] = "TIMER" THEN @[c] - 1 ELSE @[c]]]
  /\ UNCHANGED serverVars

\* the reconnect timer fires when its delay has passed:
\* reconnectAttempts.current++; connect()
OnTimeout(c) ==
  /\ hook.ws[c] = "TIMER"
  /\ hook.delay[c] = 0
  /\ hook' = connect([hook EXCEPT !.reconnectAttempts = @ + 1, !.streak = @ + 1], c)
  /\ UNCHANGED serverVars

Urls == {"https://example.com"}

Budget(posts, output, ticks, sockets, acks) ==
  [posts |-> posts, output |-> output, ticks |-> ticks, sockets |-> sockets,
   acks |-> acks]

\* job creation
NextStore ==
  \/ \E url \in Urls : PostScans(url)
  \/ \E outcome \in {"running", "spawnerror", "threw"} : SpawnWorker(outcome)

\* the worker process, printing lines drawn from `lines` that chunk boundaries
\* may cut (`cuts` has TRUE) or not, and the handlers of its events
NextWorker(lines, cuts) ==
  \/ \E id \in JobIds : ErrorEvent(id)
  \/ \E id \in JobIds, code \in ExitCodes : WorkerExit(id, code)
  \/ \E id \in JobIds, whole \in Outputs(lines, budget.output), cut \in cuts :
        StdoutData(id, whole, cut)
  \/ ResumeStdout
  \/ \E id \in JobIds, text \in StderrTexts : StderrData(id, text)
  \/ \E id \in JobIds : Close(id)
  \/ ResumeBroadcast

\* the WebSocket connections
NextObservers(ids) ==
  \/ \E ws \in Conns : WsConnect(ws)
  \/ \E ws \in Conns, text \in WsTexts(ids) : WsMessage(ws, text)
  \/ \E ws \in Conns : WsClosing(ws)
  \/ \E ws \in Conns : WsClose(ws)

\* One job and its worker, no observer connected.
Init == Start /\ budget = Budget(1, MaxOutput, MaxClock, 0, 0)
Next == Tick \/ NextStore \/ NextWorker(StdoutLines, BOOLEAN)
Spec == Init /\ [][Next]_vars

\* One job, its worker and its observers; the clock stands still.
InitLive == Start /\ budget = Budget(1, MaxLiveOutput, 0, Cardinality(Conns), MaxAcks)
NextLive == NextStore \/ NextWorker(LiveLines, {FALSE}) \/ NextObservers({1})
SpecLive == InitLive /\ [][NextLive]_vars

\* SpecCross: the one line every worker prints
CrossLines == {Json([type |-> "log", data |-> [level |-> "INFO", message |-> "step"]])}

\* Two jobs, their workers while they run (stdout only) and observers that
\* subscribe to either job.
InitCross == Start /\ budget = Budget(Cardinality(JobIds), MaxLiveOutput, 0, Cardinality(Conns), MaxAcks)
NextCross ==
  \/ NextStore
  \/ \E id \in JobIds, whole \in Outputs(CrossLines, budget.output) :
        StdoutData(id, whole, FALSE)
  \/ ResumeStdout
  \/ NextObservers(JobIds)
SpecCross == InitCross /\ [][NextCross]_vars

\* SpecPayload: lines whose payload names columns of the record
PayloadLines ==
  {Json(o) : o \in {[type |-> "progress", data |-> [progress |-> 10, status |-> "paused"]],
                    [type |-> "result", data |-> [status |-> "done", securityScore |-> Some(85)]],
                    [type |-> "result",
                     data |-> [id |-> 2, url |-> "https://other.example",
                               createdAt |-> Some(7)]]}}

\* SpecPayload: stderr output that reads like a line of the stdout protocol
PayloadErrTexts == {"{\"type\":\"result\",\"data\":{\"securityScore\":85}}\n"}

\* One job whose worker prints payloads that name columns of the record, and
\* protocol text on stderr; no observer connected.
InitPayload == Start /\ budget = Budget(1, MaxOutput, MaxClock, 0, 0)
NextPayload ==
  \/ Tick
  \/ NextStore
  \/ \E id \in JobIds, code \in ExitCodes : WorkerExit(id, code)
  \/ \E id \in JobIds, whole \in Outputs(PayloadLines, budget.output) :
        StdoutData(id, whole, FALSE)
  \/ ResumeStdout
  \/ \E id \in JobIds, text \in PayloadErrTexts : StderrData(id, text)
  \/ \E id \in JobIds : Close(id)
  \/ ResumeBroadcast
SpecPayload == InitPayload /\ [][NextPayload]_vars

\* SpecList: a result whose payload carries a createdAt
ListLines == {Json([type |-> "result", data |-> [createdAt |-> Some(7)]])}

\* Two jobs created at different times, whose workers may print a createdAt.
InitList == Start /\ budget = Budget(Cardinality(JobIds), MaxOutput, MaxClock, 0, 0)
NextList ==
  \/ Tick
  \/ NextStore
  \/ \E id \in JobIds, whole \in Outputs(ListLines, budget.output) :
        StdoutData(id, whole, FALSE)
  \/ ResumeStdout
SpecList == InitList /\ [][NextList]_vars

\* One mounted hook, its sockets and its timers; the server is left out: a
\* socket may open, fail to open or be closed at any time.
InitClient == Start /\ budget = Budget(0, 0, 0, 0, 0)
NextClient ==
  \/ Effect
  \/ Unmount
  \/ \E c \in Chains : OnOpen(c)
  \/ \E c \in Chains : OnClose(c)
  \/ Second
  \/ \E c \in Chains : OnTimeout(c)
SpecClient == InitClient /\ [][NextClient]_vars

\* ------------------------------------------------------------------- claims
\* what was published for a job, by type
OfType(msgs, type) == SelectSeq(msgs, LAMBDA m : m.type = type)

\* the worker events of job id that connection ws was sent
WorkerMsgs(ws, id) ==
  SelectSeq(received[ws], LAMBDA m : m.job = id /\ m.type # "subscribed")

\* C1: once a job's status is completed or failed, no step changes it.
C1_TerminalAbsorbing ==
  [][\A id \in DOMAIN scanSessions :
        scanSessions[id].status \in Terminal
          => scanSessions'[id].status = scanSessions[id].status]_vars

\* C2: whatever the exit code, once the worker's close event has been handled
\* the job is completed or failed.
C2_ClosedIsTerminal ==
  \A id \in DOMAIN scanSessions :
    (proc[id].state = "closed" /\ EventLoopIdle)
      => scanSessions[id].status \in Terminal

\* the result events, and the progress events carrying a terminal status, that
\* were handled for a job
TerminalEvents(id) ==
  {i \in DOMAIN published[id] :
     \/ published[id][i].type = "result"
     \/ /\ published[id][i].type = "progress"
        /\ OrElse(published[id][i].data, "status", "running") \in Terminal}

StatusPending(id) ==
  Cardinality({i \in DOMAIN microtasks :
                 microtasks[i].kind = "close" /\ microtasks[i].job = id})

\* C3: a worker that exits with a non-zero code, no result or terminal event
\* having been handled before, leaves the job failed with completedAt set, and
\* the failure is made and announced exactly once.
C3_NonZeroExitFails ==
  \A id \in DOMAIN scanSessions :
    (proc[id].state = "closed" /\ proc[id].code # 0 /\ TerminalEvents(id) = {})
      => /\ scanSessions[id].status = "failed"
         /\ scanSessions[id].completedAt # Null
         /\ Len(OfType(published[id], "status")) + StatusPending(id) = 1

\* a worker that logged on stderr, reported progress and exited with code 1
C3_Witness ==
  \E id \in DOMAIN scanSessions :
    /\ proc[id] = [state |-> "closed", code |-> 1]
    /\ TerminalEvents(id) = {}
    /\ EventLoopIdle
    /\ scanSessions[id].progress = 50
    /\ \E i \in DOMAIN scanSessions[id].logs : scanSessions[id].logs[i].level = "ERROR"
    /\ scanSessions[id].status = "failed"
    /\ Len(OfType(published[id], "status")) = 1

\* C4: when a result has been handled (the job is completed), handling the
\* worker's exit changes neither the record nor what is announced.
C4_ExitAfterResultChangesNothing ==
  [][\A id \in DOMAIN scanSessions :
        (/\ proc[id].state = "exited" /\ proc'[id].state = "closed"
         /\ OfType(published[id], "result") # <<>>
         /\ scanSessions[id].status = "completed")
          => scanSessions'[id] = scanSessions[id] /\ microtasks' = microtasks]_vars

Increasing(msgs) == \A i, j \in DOMAIN msgs : i < j => msgs[i].seq < msgs[j].seq

\* C5: the events of one job are published, and reach every observer, in the
\* order in which the worker's output reached the handlers.
C5_PerJobFifo ==
  \A id \in JobIds :
    /\ Increasing(published[id])
    /\ \A ws \in Conns : Increasing(WorkerMsgs(ws, id))

\* an observer that was sent a progress, the result and the failure of one job
C5_Witness ==
  \E ws \in Conns, id \in JobIds :
    /\ Len(WorkerMsgs(ws, id)) = 3
    /\ [i \in 1..3 |-> WorkerMsgs(ws, id)[i].type] = <<"progress", "result", "status">>

\* C6: when no handler is suspended, the job's logs are exactly the entries of
\* the log events handled for it, one each, in order.
C6_LogsAreTheLogEvents ==
  \A id \in DOMAIN scanSessions :
    EventLoopIdle
      => scanSessions[id].logs =
           [i \in DOMAIN OfType(published[id], "log") |->
              OfType(published[id], "log")[i].data]

\* what a snapshot read of the job shows once the event of message m is stored
Reflects(sessions, m) ==
  CASE m.type = "log" -> m.data \in Range(sessions[m.job].logs)
    [] m.type = "progress" ->
         /\ sessions[m.job].progress = m.data.progress
         /\ sessions[m.job].status = OrElse(m.data, "status", "running")
    [] m.type = "result" ->
         /\ sessions[m.job].status = "completed"
         /\ sessions[m.job].completedAt # Null
         /\ \A f \in DOMAIN m.data : sessions[m.job][f] = m.data[f]
    [] m.type = "status" ->
         /\ sessions[m.job].status = m.data.status
         /\ sessions[m.job].completedAt # Null
    [] OTHER -> TRUE

\* C7: whenever an observer is sent an event, the mutation of that event is
\* already in the record a snapshot read returns.
C7_PersistThenPublish ==
  [][\A ws \in Conns :
        \A i \in (Len(received[ws]) + 1)..Len(received'[ws]) :
           Reflects(scanSessions, received'[ws][i])]_vars

\* an observer that was sent a log and then the result
C7_Witness ==
  \E ws \in Conns, id \in DOMAIN scanSessions :
    /\ Len(WorkerMsgs(ws, id)) = 2
    /\ WorkerMsgs(ws, id)[1].type = "log"
    /\ WorkerMsgs(ws, id)[2].type = "result"
    /\ scanSessions[id].securityScore = Some(85)

\* the ERROR log entries whose message is the text of a line that failed to parse
ParseErrorLogs(id) ==
  SelectSeq(scanSessions[id].logs,
            LAMBDA e : /\ e.level = "ERROR"
                       /\ \E i \in DOMAIN parseFailures[id] :
                             e.message = parseFailures[id][i].text.raw)

\* C8: a line that is not valid JSON adds exactly one ERROR log entry and
\* stops the handling of no other line.
C8_MalformedLineLoggedAndSkipped ==
  \A id \in DOMAIN scanSessions :
    EventLoopIdle
      => /\ skipped[id] = 0
         /\ Len(ParseErrorLogs(id)) = Len(parseFailures[id])

\* C9: a worker that could not be started (spawn threw, or reported an error
\* event and closed) leaves the job failed with completedAt set.
C9_SpawnFailureFails ==
  \A id \in DOMAIN scanSessions :
    (\/ proc[id].state = "threw"
     \/ proc[id].state = "closed" /\ proc[id].code < 0 /\ EventLoopIdle)
      => scanSessions[id].status = "failed" /\ scanSessions[id].completedAt # Null

\* C10: however often a connection subscribes to a job, it is a member of the
\* job's Set once, and every step sends an open member each event the step
\* publishes for the job exactly once.
C10_SubscribeIdempotent ==
  [][\A id \in DOMAIN sessionConnections', ws \in Conns :
        /\ Count(sessionConnections'[id], ws) <= 1
        /\ (IsMember(sessionConnections, id, ws) /\ IsOpen(ws))
             => WorkerMsgs(ws, id)' =
                  WorkerMsgs(ws, id)
                    \o SubSeq(published'[id], Len(published[id]) + 1, Len(published'[id]))]_vars

\* a connection that subscribed twice and was then sent two events once each
C10_Witness ==
  \E id \in DOMAIN sessionConnections, ws \in Conns :
    /\ Len(received[ws]) = 4
    /\ [i \in 1..4 |-> received[ws][i].type] = <<"subscribed", "subscribed", "log", "result">>
    /\ Count(sessionConnections[id], ws) = 1
    /\ Len(published[id]) = 2

\* what a step publishes for a job
NewlyPublished(id) == SubSeq(published'[id], Len(published[id]) + 1, Len(published'[id]))

\* the worker events of job id that a step sends to connection ws
NewlySent(ws, id) ==
  SubSeq(WorkerMsgs(ws, id)', Len(WorkerMsgs(ws, id)) + 1, Len(WorkerMsgs(ws, id)'))

\* C11: of a job that has published events, a step sends a connection events
\* only if the connection was an open member of the job's Set before the step,
\* and then exactly the events the step publishes; what was published earlier
\* is never sent again, in particular not by the step that handles a subscribe.
C11_NoReplay ==
  [][\A id \in {k \in JobIds : published'[k] # <<>>}, ws \in Conns :
        LET before == WorkerMsgs(ws, id)
            after  == WorkerMsgs(ws, id)'
        IN  after = before \o (IF IsMember(sessionConnections, id, ws) /\ IsOpen(ws)
                               THEN NewlyPublished(id) ELSE <<>>)]_vars

\* two events were published; one connection was sent both, the other, which
\* subscribed in between, only the second
C11_Witness ==
  \E early, late \in Conns, id \in JobIds :
    /\ Len(published[id]) = 2
    /\ WorkerMsgs(early, id) = published[id]
    /\ WorkerMsgs(late, id) = <<published[id][2]>>
    /\ IsMember(sessionConnections, id, late) /\ IsOpen(late)

\* the job's Set holds a connection that is not OPEN
HasClosedMember(id) ==
  id \in DOMAIN sessionConnections
    /\ \E ws \in Range(sessionConnections[id]) : ~IsOpen(ws)

\* C12: when a job's Set holds a connection that is not OPEN, a publish still
\* sends the event to every open member, the server keeps running, and the
\* stdout handler goes on to the next line of its chunk.
C12_ClosedMemberBlocksNobody ==
  [][\A id \in JobIds :
        HasClosedMember(id) =>
          /\ \A ws \in Conns :
                (IsMember(sessionConnections, id, ws) /\ IsOpen(ws))
                  => NewlySent(ws, id) = NewlyPublished(id)
          /\ NewlyPublished(id) # <<>> => ~crashed'
          /\ (/\ microtasks # <<>>
              /\ Head(microtasks).kind = "stdout"
              /\ Head(microtasks).job = id
              /\ Head(microtasks).rest # <<>>
              /\ JSONParse(Head(Head(microtasks).rest).text).type
                    \in {"log", "progress", "result"})
               => /\ microtasks' # <<>>
                  /\ Head(microtasks').rest = Tail(Head(microtasks).rest)]_vars

\* a closing connection is still in the Set (first build); the open member
\* after it was sent both published events, the closing one only the first
C12_Witness ==
  \E id \in DOMAIN sessionConnections, gone, open \in Conns :
    /\ sessionConnections[id] = <<gone, open>>
    /\ readyState[gone] = "CLOSING" /\ IsOpen(open)
    /\ Len(published[id]) = 2
    /\ WorkerMsgs(open, id) = published[id]
    /\ WorkerMsgs(gone, id) = <<published[id][1]>>

\* C13: after a step that publishes for a job, every member of the job's Set
\* is OPEN.
C13_PublishDropsClosedMembers ==
  [][\A id \in DOMAIN sessionConnections' :
        NewlyPublished(id) # <<>>
          => \A ws \in Range(sessionConnections'[id]) : readyState'[ws] = "OPEN"]_vars

\* C14: a connection whose close event has been handled is a member of no
\* job's Set, whatever it had subscribed to, and is sent nothing any more.
C14_ClosedConnectionIsGone ==
  [][\A ws \in Conns :
        readyState'[ws] = "CLOSED" =>
          /\ \A id \in DOMAIN sessionConnections' : ~IsMember(sessionConnections', id, ws)
          /\ readyState[ws] = "CLOSED" => received'[ws] = received[ws]]_vars

\* a closed connection that had subscribed to both jobs (later build: both
\* confirmations) and been sent an event of job 1, and a second event of job 1,
\* published after it closed, that it was not sent
C14_Witness ==
  \E ws \in Conns :
    /\ readyState[ws] = "CLOSED"
    /\ \A id \in JobIds :
          \E i \in DOMAIN received[ws] :
             received[ws][i].type = "subscribed" /\ received[ws][i].job = id
    /\ Len(WorkerMsgs(ws, 1)) = 1
    /\ Len(published[1]) = 2
    /\ \A id \in DOMAIN sessionConnections : ~IsMember(sessionConnections, id, ws)

\* C15: a step that publishes for job id sends events of that job to the open
\* members of id's Set and to no other connection; a connection subscribed
\* only to other jobs is sent none of them.
C15_OwnJobOnly ==
  [][\A id \in JobIds :
        {ws \in Conns : NewlySent(ws, id) # <<>>} =
          (IF NewlyPublished(id) = <<>> THEN {}
           ELSE {ws \in Conns : IsMember(sessionConnections, id, ws) /\ IsOpen(ws)})]_vars

\* one connection subscribed to job 1 only, the other to job 2 only; an event
\* was published for each job and each connection was sent its own job's
C15_Witness ==
  /\ DOMAIN sessionConnections = {1, 2}
  /\ sessionConnections[1] = <<1>> /\ sessionConnections[2] = <<2>>
  /\ Len(published[1]) = 1 /\ Len(published[2]) = 1
  /\ WorkerMsgs(1, 1) = published[1] /\ WorkerMsgs(1, 2) = <<>>
  /\ WorkerMsgs(2, 2) = published[2] /\ WorkerMsgs(2, 1) = <<>>

\* C16: a step that creates a job stores, under an id no earlier job has (the
\* next of a counter that only grows), a record with status pending, progress
\* 0, no logs and no completedAt, and that record is what the caller is
\* answered with; the records of the other jobs are left as they are.
C16_CreationRecord ==
  [][/\ currentId' >= currentId
     /\ \A k \in DOMAIN scanSessions' : k < currentId'
     /\ \A id \in (DOMAIN scanSessions') \ (DOMAIN scanSessions) :
          /\ id = currentId /\ currentId' = currentId + 1
          /\ scanSessions'[id].id = id
          /\ scanSessions'[id].status = "pending"
          /\ scanSessions'[id].progress = 0
          /\ scanSessions'[id].logs = <<>>
          /\ scanSessions'[id].completedAt = Null
          /\ microtasks' # <<>>
          /\ microtasks'[Len(microtasks')].kind = "spawn"
          /\ microtasks'[Len(microtasks')].msg.data = scanSessions'[id]
          /\ \A k \in DOMAIN scanSessions : scanSessions'[k] = scanSessions[k]]_vars

\* a second job, just created, beside a first one that has logged already
C16_Witness ==
  /\ DOMAIN scanSessions = {1, 2}
  /\ scanSessions[1].logs # <<>>
  /\ scanSessions[2].id = 2 /\ scanSessions[2].status = "pending"
  /\ scanSessions[2].logs = <<>>
  /\ microtasks # <<>> /\ Head(microtasks).kind = "spawn"

\* C17: once an output event of the worker (a log line, stderr output, a
\* progress line) has been handled, the job is no longer pending.
C17_PendingUntilFirstOutput ==
  \A id \in DOMAIN scanSessions :
    (EventLoopIdle /\ published[id] # <<>>) => scanSessions[id].status # "pending"

\* C18: no step lowers a job's stored progress, and it stays within 0..100.
C18_ProgressMonotone ==
  [][\A id \in DOMAIN scanSessions :
        /\ scanSessions'[id].progress >= scanSessions[id].progress
        /\ scanSessions'[id].progress \in 0..100]_vars

\* C19: once a job is completed or failed, no step changes its stored progress.
C19_ProgressFrozenWhenTerminal ==
  [][\A id \in DOMAIN scanSessions :
        scanSessions[id].status \in Terminal
          => scanSessions'[id].progress = scanSessions[id].progress]_vars

IsPrefix(s, t) == Len(s) <= Len(t) /\ SubSeq(t, 1, Len(s)) = s

\* C20: on every step the job's logs before the step are a prefix of its logs
\* after it.
C20_LogsOnlyGrow ==
  [][\A id \in DOMAIN scanSessions :
        IsPrefix(scanSessions[id].logs, scanSessions'[id].logs)]_vars

\* the result columns of a record
ResultFields == {"securityScore", "loadTime", "domElements", "jsErrors",
                 "vulnerabilities", "performanceMetrics", "nlpInsights"}

\* C21: when no handler is suspended and every line so far parsed, every
\* output unit that reached a handler, the lines with a custom tag included,
\* has been published to the job's subscribers.
C21_CustomTagsForwarded ==
  \A id \in DOMAIN scanSessions :
    (EventLoopIdle /\ parseFailures[id] = <<>>)
      => \A n \in 1..arrivals[id] :
            \E i \in DOMAIN published[id] : published[id][i].seq = n

\* C23: a failed job has no result: all its result columns are null.
C23_FailedHasNoResult ==
  \A id \in DOMAIN scanSessions :
    scanSessions[id].status = "failed"
      => \A f \in ResultFields : scanSessions[id][f] = Null

\* C26: no parse failure comes from a piece of a line that chunk boundaries
\* cut in two.
C26_SplitLineDecodedOnce ==
  \A id \in JobIds :
    \A i \in DOMAIN parseFailures[id] :
       parseFailures[id][i].text.raw \notin {"head", "tail"}

\* C28: completedAt is set exactly when the status is completed or failed.
C28_CompletedAtIffTerminal ==
  \A id \in DOMAIN scanSessions :
    (scanSessions[id].completedAt # Null) <=> (scanSessions[id].status \in Terminal)

\* C22: the stored status of every job is one of pending, running, completed
\* and failed.
C22_StatusDomain ==
  \A id \in DOMAIN scanSessions :
    scanSessions[id].status \in {"pending", "running", "completed", "failed"}

\* C29: the record stored under key k has id k, and no step changes the url
\* or the createdAt of a record.
C29_IdentityImmutable ==
  [][/\ \A k \in DOMAIN scanSessions' : scanSessions'[k].id = k
     /\ \A k \in DOMAIN scanSessions :
          /\ scanSessions'[k].url = scanSessions[k].url
          /\ scanSessions'[k].createdAt = scanSessions[k].createdAt]_vars

\* C27: the handler of a stderr chunk, whatever the text, appends one entry of
\* level ERROR to the job's log and changes nothing else of any record, and
\* its continuation publishes that entry as one log event and changes no
\* record.
C27_StderrNeverStructured ==
  [][/\ (microtasks' # microtasks /\ microtasks' # <<>>
          /\ microtasks'[Len(microtasks')].kind = "stderr")
        => LET k == microtasks'[Len(microtasks')] IN
           /\ k.msg.type = "log" /\ k.msg.data.level = "ERROR"
           /\ scanSessions' = [scanSessions EXCEPT ![k.job].logs = Append(@, k.msg.data)]
           /\ published' = published
     /\ (microtasks # <<>> /\ Head(microtasks).kind = "stderr"
          /\ microtasks' # microtasks)
        => LET k == Head(microtasks) IN
           /\ scanSessions' = scanSessions
           /\ published' = [published EXCEPT ![k.job] = Append(@, k.msg)]]_vars

\* C27 witness: stderr text that reads like a result line was logged as an
\* ERROR entry and published as a log event; the job is still pending, with no
\* result
C27_Witness ==
  /\ 1 \in DOMAIN scanSessions
  /\ scanSessions[1].status = "pending" /\ scanSessions[1].securityScore = Null
  /\ \E i \in DOMAIN published[1] :
        /\ published[1][i].type = "log"
        /\ published[1][i].data.level = "ERROR"
        /\ published[1][i].data.message = "{\"type\":\"result\",\"data\":{\"securityScore\":85}}"
        /\ published[1][i].data \in Range(scanSessions[1].logs)

\* the record after one published event is applied to it
ApplyEvent(rec, m) ==
  CASE m.type = "log"      -> [rec EXCEPT !.logs = Append(@, m.data)]
    [] m.type = "progress" -> Spread(rec, ProgressUpdate(m.data))
    [] m.type = "result"   -> Spread(rec, ResultUpdate(m.data, clock))
    [] m.type = "status"   -> Spread(rec, FailedUpdate(clock))
    [] OTHER               -> rec

\* the record after the events `msgs` are applied in order
RECURSIVE Replay(_, _)
Replay(rec, msgs) ==
  IF msgs = <<>> THEN rec ELSE Replay(ApplyEvent(rec, Head(msgs)), Tail(msgs))

\* a step of a connection: it opens, starts closing or closes, or a message of
\* it is handled
ObserverStep ==
  \/ readyState' # readyState
  \/ /\ published' = published
     /\ sessionConnections' # sessionConnections \/ received' # received

\* C24: a step of an observer changes no job record, no worker and no pending
\* handler, and whatever the observers did, once no handler is suspended every
\* record is the creation record with the worker's published events applied in
\* order.
C24_ObserversNeverAffectJobs ==
  [][/\ ObserverStep
        => UNCHANGED <<scanSessions, currentId, proc, stdoutPipe, arrivals,
                       microtasks, published, parseFailures, skipped, crashed>>
     /\ (microtasks' = <<>> /\ ~crashed')
        => \A id \in DOMAIN scanSessions' :
              scanSessions'[id] =
                Replay(NewSession([url |-> scanSessions'[id].url], id, clock'),
                       published'[id])]_vars

\* C24 witness: two events of job 1 were applied while one connection,
\* subscribed to it, had started closing and another, subscribed between the
\* two, received the second
C24_Witness ==
  /\ EventLoopIdle
  /\ 1 \in DOMAIN scanSessions /\ Len(scanSessions[1].logs) = 2
  /\ \E ws \in Conns : readyState[ws] = "CLOSING" /\ IsMember(sessionConnections, 1, ws)
  /\ \E ws \in Conns : readyState[ws] = "OPEN" /\ Len(WorkerMsgs(ws, 1)) = 1

\* C25: the job list holds the record of every stored job exactly once, and of
\* two adjacent entries the first was created no earlier than the second.
C25_ListNewestFirst ==
  LET list == getAllScanSessions(scanSessions) IN
  /\ Len(list) = Cardinality(DOMAIN scanSessions)
  /\ \A k \in DOMAIN scanSessions :
        \E i \in DOMAIN list : list[i] = scanSessions[k] /\ list[i].id = k
  /\ \A i \in 1..(Len(list) - 1) : Time(list[i]) >= Time(list[i + 1])

\* C25 witness: the job created second, at a later time, is listed first
C25_Witness ==
  LET list == getAllScanSessions(scanSessions) IN
  /\ Len(list) = 2
  /\ list[1].id = 2 /\ list[2].id = 1
  /\ Time(list[1]) > Time(list[2])

\* C30: the attempt counter stays within 0..5, and at most 5 reconnect
\* attempts are made without a successful open between them.
C30_ReconnectBounded ==
  /\ hook.reconnectAttempts \in 0..MaxAttempts
  /\ hook.streak <= MaxAttempts

\* the cleanup has run for the instance that began socket c: a later run of
\* the effect replaced it, or the component unmounted
TornDown(c) == hook.ws[c] # "NONE" /\ (c < hook.effects \/ ~hook.mounted)

\* C31: once the cleanup has run for an instance, its socket only ever goes
\* away: no step schedules a reconnect for it or connects it again, and its
\* close event leaves the reference to another instance's socket alone.
C31_TeardownIsFinal ==
  [][\A c \in Chains :
       (TornDown(c) /\ hook'.ws[c] # hook.ws[c])
         => /\ hook'.ws[c] = "DEAD"
            /\ hook.wsRef # c => hook'.wsRef = hook.wsRef]_vars

====
